---- MODULE Spec2Model ----
(***************************************************************************)
(* Model of the field-comparison engine ErrorAnalyzer (src/analyser.py).   *)
(*                                                                         *)
(* Numbers.  A p-value is a record [u, k]:                                 *)
(*   [u |-> "ulp", k |-> n]  is the double n * 2^-55  (n small), the part  *)
(*                           of the doubles where 1 - p rounds;            *)
(*   [u |-> "e5",  k |-> n]  is the double nearest to n * 10^-5, 1 <= n    *)
(*                           (the decimal grid);                           *)
(*   [u |-> "raise", k |-> 0] stands for the strategy raising, and         *)
(*   [u |-> "raise", k |-> 1] for the call on a strategy that is None.     *)
(* A score (probability column) is a record [u, k]:                        *)
(*   [u |-> "b46", k |-> r]  is the double 100 - r * 2^-46 (r = 0: 100.0); *)
(*   [u |-> "zero", k |-> <<>>] is 0.0.                                    *)
(* An effect size and an adjusted p-value are doubles [kind, s, m, e] (see  *)
(* binary64 below).                                                        *)
(* All arithmetic on them is IEEE-754 binary64 round-to-nearest-even, on   *)
(* significands kept as big naturals.                                      *)
(***************************************************************************)
EXTENDS Integers, Sequences, FiniteSets, TLC

VARIABLES good_columns, bad_columns, good_data, bad_data, fields_to_ignore,
          numerical_strategy, strategy_p, op, arg_field, arg_p_values, arg_method,
          status, error, table, calls, effect, adjusted

vars == <<good_columns, bad_columns, good_data, bad_data, fields_to_ignore,
          numerical_strategy, strategy_p, op, arg_field, arg_p_values, arg_method,
          status, error, table, calls, effect, adjusted>>

engine == <<good_columns, bad_columns, good_data, bad_data, fields_to_ignore,
            numerical_strategy, strategy_p>>

(* State: the engine is what __init__ stores and never changes:            *)
(*   good_columns, bad_columns : the column names of the two DataFrames, in *)
(*                               column order (names are distinct);         *)
(*   good_data, bad_data       : column name -> its values, in row order;   *)
(*   fields_to_ignore          : the ignore-list (only membership is read); *)
(*   numerical_strategy        : "None" (the default of __init__) or        *)
(*                               "strategy", a NumericalStrategy object;    *)
(*   strategy_p                : what the statistical test (the numerical   *)
(*                               strategy, if there is one, or the          *)
(*                               chi-squared test) returns for the two      *)
(*                               columns of each shared field.              *)
(* The other variables record the last call: the operation, its arguments,  *)
(* whether it returned or raised, and what it returned.                     *)

(* ------------------------------ bounds --------------------------------- *)

MaxRows == 2

MaxLen == 3

MaxUlp == 16

Fields == {"a", "b", "c"}

(* ------------------------------ values --------------------------------- *)

Num(n) == [t |-> "num", v |-> n]

Str(n) == [t |-> "str", v |-> n]

PUlp(n) == [u |-> "ulp", k |-> n]

PE5(n) == [u |-> "e5", k |-> n]

PRaise == [u |-> "raise", k |-> 0]

PAttributeError == [u |-> "raise", k |-> 1]

\* a probability 1 - t * 2^-53 (t a big natural; t = <<>> is 1.0)
B53(t) == [u |-> "b53", k |-> t]

\* the probability 0
ProbZero == [u |-> "zero", k |-> <<>>]

\* a score 100 - r * 2^-46 (r a big natural; r = <<>> is 100.0)
B46(r) == [u |-> "b46", k |-> r]

\* the score 0.0
ScoreZero == [u |-> "zero", k |-> <<>>]

Range(s) == {s[i] : i \in 1..Len(s)}

(* ------------------- binary64 significands (big naturals) -------------- *)
(* A big natural is the sequence of its base-2^14 digits, lowest first,    *)
(* without leading zeros; <<>> is 0.  A value that is used more than once  *)
(* is bound to a variable over a one-element set: CHOOSE r \in {e(x) : x   *)
(* \in {v}} : TRUE is e(v), with v computed once and before e.             *)

\* s without its leading zeros
BigNorm(s) ==
    SubSeq(s, 1, CHOOSE n \in 0..Len(s) :
                     /\ n = 0 \/ s[n] # 0
                     /\ \A j \in (n + 1)..Len(s) : s[j] = 0)

\* an int n >= 0
BigOf(n) == BigNorm(<<n % 16384, (n \div 16384) % 16384, n \div 268435456>>)

\* digit i of N, 0 beyond its length
BigAt(N, i) == IF 1 <= i /\ i <= Len(N) THEN N[i] ELSE 0

\* A + B: digit i takes a carry when, below it, two digits that sum to 2^14
\* or more are followed only by digits that sum to 2^14 - 1
BigPlus(A, B) ==
    LET n == IF Len(A) < Len(B) THEN Len(B) ELSE Len(A)
        sum(i) == BigAt(A, i) + BigAt(B, i)
        carry(i) == IF \E j \in 1..(i - 1) :
                           /\ sum(j) >= 16384
                           /\ \A k \in (j + 1)..(i - 1) : sum(k) = 16383
                    THEN 1 ELSE 0
    IN  BigNorm([i \in 1..(n + 1) |-> (sum(i) + carry(i)) % 16384])

\* A - B, for A >= B: digit i gives a borrow when, below it, a digit of A
\* less than B's is followed only by equal digits
BigMinus(A, B) ==
    LET borrow(i) == IF \E j \in 1..(i - 1) :
                            /\ A[j] < BigAt(B, j)
                            /\ \A k \in (j + 1)..(i - 1) : A[k] = BigAt(B, k)
                     THEN 1 ELSE 0
    IN  BigNorm([i \in 1..Len(A) |-> (A[i] - BigAt(B, i) - borrow(i) + 16384) % 16384])

\* N * c, 0 <= c <= 2^14: the low digits of the products, plus their high
\* digits one place up
BigMul(N, c) ==
    BigPlus([i \in 1..Len(N) |-> (N[i] * c) % 16384],
            <<0>> \o [i \in 1..Len(N) |-> (N[i] * c) \div 16384])

\* N + c, for an int c >= 0
BigAdd(N, c) == BigPlus(N, BigOf(c))

RECURSIVE BigDivC(_, _, _, _)
BigDivC(N, d, i, rem) ==
    IF i = 0 THEN [q |-> <<>>, r |-> rem]
    ELSE LET v == rem * 16384 + N[i]
             rest == BigDivC(N, d, i - 1, v % d)
         IN  [q |-> Append(rest.q, v \div d), r |-> rest.r]

\* quotient and remainder of N by d, 1 <= d <= 2^17
BigDiv(N, d) ==
    LET x == BigDivC(N, d, Len(N), 0)
    IN  [q |-> BigNorm(x.q), r |-> x.r]

BigLess(A, B) ==
    IF Len(A) # Len(B) THEN Len(A) < Len(B)
    ELSE \E i \in 1..Len(A) : /\ A[i] < B[i]
                              /\ \A j \in (i + 1)..Len(A) : A[j] = B[j]

BigEven(N) == N = <<>> \/ N[1] % 2 = 0

\* round N/d to the nearest integer, ties to the even one (1 <= d <= 2^17)
RoundHalfEven(N, d) ==
    LET x == BigDiv(N, d)
    IN  IF 2 * x.r < d THEN x.q
        ELSE IF 2 * x.r > d THEN BigAdd(x.q, 1)
        ELSE IF BigEven(x.q) THEN x.q ELSE BigAdd(x.q, 1)

\* N * 2^k: every digit moves k \div 14 places up, its low bits shifted up
\* and its high bits carried into the next place
BigShl(N, k) ==
    LET w == k \div 14
        r == 2 ^ (k % 14)
    IN  BigNorm([i \in 1..(Len(N) + w + 1) |->
                    (BigAt(N, i - w) % (16384 \div r)) * r
                    + BigAt(N, i - w - 1) \div (16384 \div r)])

\* N \div 2^k, and whether a bit shifted out was set
BigShr(N, k) ==
    LET w == k \div 14
        r == 2 ^ (k % 14)
    IN  [q |-> BigNorm([i \in 1..(Len(N) - w) |->
                           N[w + i] \div r + (BigAt(N, w + i + 1) % r) * (16384 \div r)]),
         sticky |-> \E i \in 1..Len(N) : IF i <= w THEN N[i] # 0
                                         ELSE i = w + 1 /\ N[i] % r # 0]

BigPow2(n) == BigShl(<<1>>, n)

\* the number of bits of a digit
IntBitLen(n) == CHOOSE k \in 0..14 : n < 2 ^ k /\ (k = 0 \/ n >= 2 ^ (k - 1))

\* the number of bits of N
BigBitLen(N) == IF N = <<>> THEN 0 ELSE 14 * (Len(N) - 1) + IntBitLen(N[Len(N)])

\* the sum of the products A[i] * B[j] with i + j = k + 1, B of at most 8
\* digits
BigColumn(A, B, k) ==
    LET T(j) == IF j <= Len(B) THEN BigAt(A, k + 1 - j) * B[j] ELSE 0
    IN  T(1) + T(2) + T(3) + T(4) + T(5) + T(6) + T(7) + T(8)

\* A * B, B of at most 8 digits: the three digits of every column sum, each
\* in its place
BigTimes(A, B) ==
    CHOOSE r \in
        {BigPlus([k \in 1..Len(col) |-> col[k] % 16384],
                 BigPlus(<<0>> \o [k \in 1..Len(col) |-> (col[k] \div 16384) % 16384],
                         <<0, 0>> \o [k \in 1..Len(col) |-> col[k] \div 268435456])) :
             col \in {[k \in 1..(Len(A) + Len(B)) |-> BigColumn(A, B, k)]}} : TRUE

\* the digit q with D * q <= R < D * (q + 1), and p = D * q, for R < D * 2^14
\* and the top digit of D at least 2^13: the quotient of the two top digits
\* of R by the top digit of D is q, q + 1 or q + 2
DigitOf(R, D) ==
    LET top == BigAt(R, Len(D) + 1) * 16384 + BigAt(R, Len(D))
        est == IF top \div D[Len(D)] > 16383 THEN 16383 ELSE top \div D[Len(D)]
    IN  CHOOSE x \in {[q |-> q, p |-> BigMul(D, q)] :
                          q \in (IF est < 2 THEN 0 ELSE est - 2)..est} :
            ~BigLess(R, x.p) /\ BigLess(BigMinus(R, x.p), D)

\* long division: quotient and remainder of the digits i..Len(N) of N by D;
\* the top Len(D) - 1 digits are less than D
RECURSIVE BigQuotC(_, _, _)
BigQuotC(N, D, i) ==
    IF i > Len(N) - Len(D) + 1
    THEN [q |-> <<>>, r |-> BigNorm(SubSeq(N, i, Len(N)))]
    ELSE CHOOSE r \in
             {[q |-> <<x.q>> \o high.q,
               r |-> BigMinus(BigNorm(<<N[i]>> \o high.r), x.p)] :
                  <<high, x>> \in
                      {<<h, DigitOf(BigNorm(<<N[i]>> \o h.r), D)>> :
                           h \in {BigQuotC(N, D, i + 1)}}} : TRUE

\* quotient and remainder of N by D, D # 0 (both scaled to bring the top
\* digit of D to 2^13 or more)
BigQuot(N, D) ==
    CHOOSE r \in
        {[q |-> BigNorm(x.q), r |-> BigShr(x.r, 14 - IntBitLen(D[Len(D)])).q] :
             x \in {BigQuotC(BigShl(N, 14 - IntBitLen(D[Len(D)])),
                             BigShl(D, 14 - IntBitLen(D[Len(D)])), 1)}} : TRUE

\* Newton's iteration downwards from x >= sqrt(N)
RECURSIVE BigSqrtC(_, _)
BigSqrtC(N, x) ==
    CHOOSE r \in
        {IF BigLess(y, x) THEN BigSqrtC(N, y) ELSE x :
             y \in {BigShr(BigPlus(x, BigQuot(N, x).q), 1).q}} : TRUE

\* the integer part of the square root of N; the iteration starts above the
\* root of the top one or two digits t of N
BigSqrt(N) ==
    IF N = <<>> THEN <<>>
    ELSE LET j == (Len(N) - 1) \div 2
             t == BigAt(N, 2 * j + 2) * 16384 + N[2 * j + 1]
             g == CHOOSE x \in 1..16384 : x * x > t /\ (x - 1) * (x - 1) <= t
         IN  BigSqrtC(N, [i \in 1..j |-> 0] \o BigOf(g))

\* the double a p-value is, as m * 2^-e : n * 2^-55 on the window, and on
\* the grid the double nearest to k / 10^5 (what the float literal k e-5 is),
\* e the least exponent with k * 2^e / 10^5 >= 2^52
DoubleOf(p) ==
    IF p.u = "ulp" THEN [m |-> BigOf(p.k), e |-> 55]
    ELSE LET i == CHOOSE j \in 0..17 : /\ p.k * 2 ^ j >= 100000
                                       /\ (j = 0 \/ p.k * 2 ^ (j - 1) < 100000)
         IN  [m |-> RoundHalfEven(BigShl(BigOf(p.k), 52 + i), 100000), e |-> 52 + i]

(* ----------------------------- binary64 -------------------------------- *)
(* A double is a record [kind, s, m, e]: kind "num" is s * m * 2^e with    *)
(* s = 1 or -1 and 2^52 <= m < 2^53; "zero", "nan" and "inf" are 0.0, nan  *)
(* and inf.  +, -, *, / and sqrt return the double nearest to the exact    *)
(* result, ties to even.  ** is the C library's pow, which is not          *)
(* correctly rounded and differs between libraries and processors: its     *)
(* result is less than one spacing of the doubles away from the exact      *)
(* power, so x ** 2 is any of the doubles around the exact square (PowTwo   *)
(* is the set of them).  The exponent is not bounded (no overflow, no      *)
(* subnormals) and -0.0 is 0.0.                                            *)

Dbl(s, m, e) == [kind |-> "num", s |-> s, m |-> m, e |-> e]

Zero == [kind |-> "zero", s |-> 1, m |-> <<>>, e |-> 0]

NaN == [kind |-> "nan", s |-> 1, m |-> <<>>, e |-> 0]

Inf == [kind |-> "inf", s |-> 1, m |-> <<>>, e |-> 0]

\* the double nearest to s * (M + f) * 2^E, where M # 0, 0 <= f < 1, and
\* f # 0 exactly when sticky: the top 53 bits h of M, one more when the bit
\* below them (the low bit of x) is set and a lower bit, or the low bit of h,
\* is set too
Round(s, M, E, sticky) ==
    LET L == BigBitLen(M)
    IN  IF L <= 53 THEN Dbl(s, BigShl(M, 53 - L), E - (53 - L))
        ELSE CHOOSE r \in
                 {IF BigBitLen(m) > 53 THEN Dbl(s, BigShr(m, 1).q, E + L - 52)
                  ELSE Dbl(s, m, E + L - 53) :
                      m \in {IF ~BigEven(x.q) /\ (sticky \/ x.sticky \/ ~BigEven(h.q))
                             THEN BigAdd(h.q, 1) ELSE h.q :
                                 x \in {BigShr(M, L - 54)},
                                 h \in {BigShr(M, L - 53)}}} : TRUE

\* float(n) of an int: exact, an int has fewer than 53 bits
FromInt(n) ==
    IF n = 0 THEN Zero
    ELSE CHOOSE r \in
             {Dbl(IF n < 0 THEN -1 ELSE 1, BigShl(N, 53 - BigBitLen(N)),
                  BigBitLen(N) - 53) :
                  N \in {BigOf(IF n < 0 THEN -n ELSE n)}} : TRUE

One == FromInt(1)

FNeg(x) == IF x.kind = "num" THEN [x EXCEPT !.s = -x.s] ELSE x

\* abs(x)
FAbs(x) == IF x.kind = "num" THEN [x EXCEPT !.s = 1] ELSE x

\* x + y: the significands A and B at the lower of the two exponents, added
\* or, for opposite signs, the lesser taken from the greater
FAdd(x, y) ==
    IF x.kind = "nan" \/ y.kind = "nan" THEN NaN
    ELSE IF x.kind = "inf" \/ y.kind = "inf" THEN Inf
    ELSE IF x.kind = "zero" THEN y
    ELSE IF y.kind = "zero" THEN x
    ELSE CHOOSE r \in
             {IF x.s # y.s /\ A = B THEN Zero
              ELSE Round(IF x.s = y.s \/ BigLess(B, A) THEN x.s ELSE y.s,
                         IF x.s = y.s THEN BigPlus(A, B)
                         ELSE IF BigLess(B, A) THEN BigMinus(A, B)
                         ELSE BigMinus(B, A),
                         IF x.e < y.e THEN x.e ELSE y.e, FALSE) :
                  A \in {BigShl(x.m, IF x.e < y.e THEN 0 ELSE x.e - y.e)},
                  B \in {BigShl(y.m, IF x.e < y.e THEN y.e - x.e ELSE 0)}} : TRUE

\* x - y
FSub(x, y) == FAdd(x, FNeg(y))

\* x * y
FMul(x, y) ==
    IF x.kind = "nan" \/ y.kind = "nan" THEN NaN
    ELSE IF x.kind = "inf" \/ y.kind = "inf"
    THEN (IF x.kind = "zero" \/ y.kind = "zero" THEN NaN ELSE Inf)
    ELSE IF x.kind = "zero" \/ y.kind = "zero" THEN Zero
    ELSE Round(x.s * y.s, BigTimes(x.m, y.m), x.e + y.e, FALSE)

\* x / y as numpy divides float64 scalars: x / 0.0 is nan for x = 0.0, else inf
FDiv(x, y) ==
    IF x.kind = "nan" \/ y.kind = "nan" THEN NaN
    ELSE IF x.kind = "inf" THEN (IF y.kind = "inf" THEN NaN ELSE Inf)
    ELSE IF y.kind = "inf" THEN Zero
    ELSE IF y.kind = "zero" THEN (IF x.kind = "zero" THEN NaN ELSE Inf)
    ELSE IF x.kind = "zero" THEN Zero
    ELSE CHOOSE r \in
             {Round(x.s * y.s, d.q, x.e - y.e - 56, d.r # <<>>) :
                  d \in {BigQuot(BigShl(x.m, 56), y.m)}} : TRUE

\* sqrt(x): the integer root S of the significand M at an even exponent
FSqrt(x) ==
    IF x.kind # "num" THEN x
    ELSE IF x.s < 0 THEN NaN
    ELSE CHOOSE r \in
             {Round(1, MS[2], (x.e - (x.e % 2) - 56) \div 2, BigTimes(MS[2], MS[2]) # MS[1]) :
                  MS \in {<<M, BigSqrt(M)>> : M \in {BigShl(x.m, 56 + (x.e % 2))}}} : TRUE

\* the doubles around s * M * 2^E, M # 0: the double it is, or else the one
\* below it (the top 53 bits h of M) and the one above it (h + 1)
Around(s, M, E) ==
    LET L == BigBitLen(M)
    IN  IF L <= 53 THEN {Dbl(s, BigShl(M, 53 - L), E - (53 - L))}
        ELSE UNION {{Dbl(s, h.q, E + L - 53)}
                    \cup (IF ~h.sticky THEN {}
                          ELSE IF BigBitLen(up) > 53
                          THEN {Dbl(s, BigShr(up, 1).q, E + L - 52)}
                          ELSE {Dbl(s, up, E + L - 53)}) :
                        <<h, up>> \in {<<x, BigAdd(x.q, 1)>> : x \in {BigShr(M, L - 53)}}}

\* x ** 2 for a float x: what pow(x, 2.0) can return (nan ** 2 is nan)
PowTwo(x) ==
    IF x.kind # "num" THEN {x}
    ELSE Around(1, BigTimes(x.m, x.m), 2 * x.e)

\* x < y, for finite x, y >= 0
FLess(x, y) ==
    IF y.kind = "zero" THEN FALSE
    ELSE IF x.kind = "zero" THEN TRUE
    ELSE IF x.e # y.e THEN x.e < y.e
    ELSE BigLess(x.m, y.m)

\* a p-value as a double
ToDouble(p) ==
    LET d == DoubleOf(p)
    IN  IF d.m = <<>> THEN Zero ELSE Round(1, d.m, -d.e, FALSE)

(* ------------------------------ engine --------------------------------- *)

\* 0.99999 : the double nearest to 1 - 10^-5
MAX_PROBABILITY == B53(RoundHalfEven(BigPow2(53), 100000))

MISSING_BAD_DATA == <<"Missing in bad_data", MAX_PROBABILITY, TRUE, "Missing in bad_data">>

ADDITIONAL_BAD_DATA == <<"Additional in bad_data", MAX_PROBABILITY, TRUE, "Additional in bad_data">>

alpha == PE5(5000)

\* p < q on p-values (every "ulp" value is below the decimal grid's 10^-5)
PLess(p, q) ==
    IF p.u = q.u THEN p.k < q.k
    ELSE p.u = "ulp"

\* 1 - p_value for 0 < p_value < 0.05 : the double 1 - t * 2^-53 nearest to
\* 1 - m * 2^-e (doubles in [0.5, 1.0] are 2^-53 apart, and e >= 55)
OneMinus(p) ==
    LET d == DoubleOf(p)
    IN  B53(RoundHalfEven(d.m, 2 ^ (d.e - 53)))

\* probability * 100 : the double 100 - r * 2^-46 nearest to
\* 100 - 100 t * 2^-53 (doubles in [64, 100] are 2^-46 = 128 * 2^-53 apart)
Times100(x) ==
    IF x.u = "zero" THEN ScoreZero
    ELSE B46(RoundHalfEven(BigMul(x.k, 100), 128))

\* the membership test with an ignore-list that was never stored
IsIgnoredNever(field, ignore) == FALSE

\* field in self.fields_to_ignore
IsIgnored(field, ignore) == field \in ignore

isinstance_number(x) == x.t = "num"

isinstance_str(x) == x.t = "str"

\* the numeric test refusing a column without values
AllNumbersNonEmpty(col) == Len(col) > 0 /\ \A i \in 1..Len(col) : isinstance_number(col[i])

AllNumbers(col) == \A i \in 1..Len(col) : isinstance_number(col[i])

\* the categorical branch with .any() in place of .all()
AllStringsAny(col) == \E i \in 1..Len(col) : isinstance_str(col[i])

AllStrings(col) == \A i \in 1..Len(col) : isinstance_str(col[i])

\* the threshold test written with <= : a p-value of exactly alpha is scored
_calculate_probability_le(p_value, is_additional) ==
    LET probability ==
            IF is_additional THEN MAX_PROBABILITY
            ELSE IF PLess(p_value, alpha) \/ p_value = alpha THEN OneMinus(p_value)
            ELSE ProbZero
    IN  Times100(probability)

_calculate_probability(p_value, is_additional) ==
    LET probability ==
            IF is_additional THEN MAX_PROBABILITY
            ELSE IF PLess(p_value, alpha) THEN OneMinus(p_value)
            ELSE ProbZero
    IN  Times100(probability)

\* lines 21..22: self.numerical_strategy.calculate_probability(good_values,
\* bad_values) is the p-value the strategy returns for this field's two columns
\* (PRaise: it raises); on None the attribute lookup raises AttributeError
_calculate_numerical_probability(field, sp, ns) ==
    IF ns = "None" THEN PAttributeError ELSE sp[field]

\* lines 126..139: the p-value of the chi-squared test on this field's two
\* columns (PRaise: it raises)
_calculate_categorical_probability(field, sp) == sp[field]

StrategyError == "strategy error"

NoStrategyError == "AttributeError: 'NoneType' object has no attribute 'calculate_probability'"

\* first loop of _calculate_probabilities, from column i of the reference on;
\* acc = [raised, error, items, calls], items in insertion order of the dict
RECURSIVE GoodLoop(_, _, _, _, _, _, _, _)
GoodLoop(i, acc, gc, bc, gd, ign, sp, ns) ==
    IF i > Len(gc) THEN acc
    ELSE LET field == gc[i] IN
         IF IsIgnored(field, ign) THEN GoodLoop(i + 1, acc, gc, bc, gd, ign, sp, ns)
         ELSE IF field \notin Range(bc)
         THEN GoodLoop(i + 1,
                       [acc EXCEPT !.items = Append(@, [field |-> field, entry |-> MISSING_BAD_DATA])],
                       gc, bc, gd, ign, sp, ns)
         ELSE IF AllNumbers(gd[field]) \/ AllStrings(gd[field])
         THEN LET family == IF AllNumbers(gd[field]) THEN "numerical" ELSE "categorical"
                  p_value == IF AllNumbers(gd[field])
                             THEN _calculate_numerical_probability(field, sp, ns)
                             ELSE _calculate_categorical_probability(field, sp)
                  called == Append(acc.calls, <<field, family>>)
              IN  IF p_value = PRaise
                  THEN [acc EXCEPT !.raised = TRUE, !.error = StrategyError,
                                   !.calls = called]
                  ELSE IF p_value = PAttributeError
                  THEN [acc EXCEPT !.raised = TRUE, !.error = NoStrategyError,
                                   !.calls = called]
                  ELSE GoodLoop(i + 1,
                                [acc EXCEPT !.calls = called,
                                            !.items = Append(@, [field |-> field,
                                                                 entry |-> <<p_value, FALSE, "None">>])],
                                gc, bc, gd, ign, sp, ns)
         ELSE GoodLoop(i + 1, acc, gc, bc, gd, ign, sp, ns)

\* second loop of _calculate_probabilities: the candidate-only columns
RECURSIVE BadLoop(_, _, _, _, _)
BadLoop(i, acc, gc, bc, ign) ==
    IF i > Len(bc) THEN acc
    ELSE LET field == bc[i] IN
         IF field \notin Range(gc) /\ ~IsIgnored(field, ign)
         THEN BadLoop(i + 1,
                      [acc EXCEPT !.items = Append(@, [field |-> field, entry |-> ADDITIONAL_BAD_DATA])],
                      gc, bc, ign)
         ELSE BadLoop(i + 1, acc, gc, bc, ign)

_calculate_probabilities(gc, bc, gd, ign, sp, ns) ==
    LET first == GoodLoop(1, [raised |-> FALSE, error |-> "", items |-> <<>>,
                              calls |-> <<>>],
                          gc, bc, gd, ign, sp, ns)
    IN  IF first.raised THEN first ELSE BadLoop(1, first, gc, bc, ign)

\* the loop of run() over probabilities.items(), from item i on
RECURSIVE RunLoop(_, _, _, _)
RunLoop(i, results, items, ign) ==
    IF i > Len(items) THEN [status |-> "returned", error |-> "", table |-> results]
    ELSE LET field == items[i].field
             entry == items[i].entry
         IN  IF Len(entry) # 3
             THEN [status |-> "raised", error |-> "ValueError: too many values to unpack",
                   table |-> <<>>]
             ELSE LET probability == _calculate_probability(entry[1], entry[2])
                      result == [field |-> field, probability |-> probability,
                                 extra_status |-> entry[2], details |-> entry[3]]
                  IN  IF ~IsIgnored(field, ign)
                      THEN RunLoop(i + 1, Append(results, result), items, ign)
                      ELSE RunLoop(i + 1, results, items, ign)

run(gc, bc, gd, ign, sp, ns) ==
    LET probabilities == _calculate_probabilities(gc, bc, gd, ign, sp, ns)
    IN  IF probabilities.raised
        THEN [status |-> "raised", error |-> probabilities.error, table |-> <<>>,
              calls |-> probabilities.calls]
        ELSE [c \in {"calls"} |-> probabilities.calls] @@ RunLoop(1, <<>>, probabilities.items, ign)

(* ---------------------------- effect size ------------------------------ *)

\* representative columns of n rows
Column(kind, n) ==
    [i \in 1..n |->
        CASE kind = "num"   -> Num(i)
          [] kind = "num3"  -> Num(3 * i)
          [] kind = "const" -> Num(2)
          [] kind = "str"   -> Str(i)
          [] kind = "mixed" -> IF i = 1 THEN Num(1) ELSE Str(i)
          [] OTHER          -> IF i = 1 THEN Str(1) ELSE Num(i)]

RECURSIVE Sum(_, _)
Sum(col, i) == IF i > Len(col) THEN 0 ELSE col[i].v + Sum(col, i + 1)

\* values.mean(): the sum of the values, as a double, over their number
mean(values) == FDiv(FromInt(Sum(values, 1)), FromInt(Len(values)))

\* sum((avg - values) ** 2) over the first n values, added up in row order
RECURSIVE SqDevSum(_, _, _)
SqDevSum(values, avg, n) ==
    IF n = 0 THEN Zero
    ELSE CHOOSE r \in
             {FAdd(SqDevSum(values, avg, n - 1), FMul(dev, dev)) :
                  dev \in {FSub(avg, FromInt(values[n].v))}} : TRUE

\* values.std() (ddof = 1): sqrt(sum((avg - values) ** 2) / (count - 1)),
\* nan for fewer than two values; avg and sqr are computed first, in turn
std(values) ==
    IF Len(values) <= 1 THEN NaN
    ELSE CHOOSE result \in
             {FSqrt(FDiv(sqr, FromInt(Len(values) - 1))) :
                  sqr \in {SqDevSum(values, avg, Len(values)) :
                               avg \in {mean(values)}}} : TRUE

\* lines 43..48: the pooled variance, named pooled_std, of the two stds
\* computed first; the set of the values it can take, one for each pair of
\* results of the two std ** 2
pooled_std(good_values, bad_values) ==
    UNION {{FDiv(FAdd(FMul(FromInt(Len(good_values) - 1), good_sq),
                      FMul(FromInt(Len(bad_values) - 1), bad_sq)),
                 FromInt(Len(good_values) + Len(bad_values) - 2)) :
                good_sq \in PowTwo(good_values_std),
                bad_sq \in PowTwo(bad_values_std)} :
              good_values_std \in {std(good_values)},
              bad_values_std \in {std(bad_values)}}

\* lines 40..50: the means and pooled_std computed first, then line 50; the
\* set of the values cohen_d can take, one for each value of pooled_std
cohen_d(good_values, bad_values) ==
    UNION {{FDiv(FAbs(FSub(good_values_mean, bad_values_mean)), pooled) :
                pooled \in pooled_std(good_values, bad_values)} :
              good_values_mean \in {mean(good_values)},
              bad_values_mean \in {mean(bad_values)}}

\* cohen_d on the numeric columns the specifications build, evaluated once
NumericColumns(kinds) == {Column(k, n) : k \in kinds, n \in 0..MaxRows}

cohen_d_table ==
    [g \in NumericColumns({"num", "const"}),
     b \in NumericColumns({"num", "num3", "const"}) |-> cohen_d(g, b)]

_calculate_effect_size(good_values, bad_values) ==
    IF ~(AllNumbers(good_values) /\ AllNumbers(bad_values))
    THEN {[status |-> "raised", error |-> "TypeError: mean of strings", value |-> Zero]}
    ELSE {[status |-> "returned", error |-> "", value |-> d] :
              d \in IF /\ good_values \in NumericColumns({"num", "const"})
                       /\ bad_values \in NumericColumns({"num", "num3", "const"})
                    THEN cohen_d_table[good_values, bad_values]
                    ELSE cohen_d(good_values, bad_values)}

Keys(items) == {items[i].field : i \in 1..Len(items)}

EntryOf(items, field) == items[CHOOSE i \in 1..Len(items) : items[i].field = field].entry

\* the ignore-list test made after the probabilities are computed
calculate_effect_size_late_ignore(field, gc, bc, gd, bd, ign, sp, ns) ==
    LET probabilities == _calculate_probabilities(gc, bc, gd, ign, sp, ns)
        cs == [c \in {"calls"} |-> probabilities.calls]
    IN  IF probabilities.raised
        THEN {cs @@ [status |-> "raised", error |-> probabilities.error, value |-> Zero]}
        ELSE IF IsIgnored(field, ign) \/ field \notin Keys(probabilities.items)
        THEN {cs @@ [status |-> "returned", error |-> "", value |-> Zero]}
        ELSE IF Len(EntryOf(probabilities.items, field)) # 3
        THEN {cs @@ [status |-> "raised",
                     error |-> "ValueError: too many values to unpack", value |-> Zero]}
        ELSE {cs @@ r : r \in _calculate_effect_size(gd[field], bd[field])}

\* the outcomes of calculate_effect_size(field): one, or one for each value
\* line 33 can return
calculate_effect_size(field, gc, bc, gd, bd, ign, sp, ns) ==
    IF IsIgnored(field, ign)
    THEN {[status |-> "returned", error |-> "", value |-> Zero, calls |-> <<>>]}
    ELSE LET probabilities == _calculate_probabilities(gc, bc, gd, ign, sp, ns)
             cs == [c \in {"calls"} |-> probabilities.calls]
         IN  IF probabilities.raised
             THEN {cs @@ [status |-> "raised", error |-> probabilities.error,
                          value |-> Zero]}
             ELSE IF field \notin Keys(probabilities.items)
             THEN {cs @@ [status |-> "returned", error |-> "", value |-> Zero]}
             ELSE IF Len(EntryOf(probabilities.items, field)) # 3
             THEN {cs @@ [status |-> "raised",
                          error |-> "ValueError: too many values to unpack",
                          value |-> Zero]}
             ELSE {cs @@ r : r \in _calculate_effect_size(gd[field], bd[field])}

(* -------------------------- adjust_p_values ---------------------------- *)

PAdjust == {PE5(1), PE5(1000), PE5(2000), PE5(50000)}

\* p_value * len(p_values) on the p-values and lengths the specifications
\* draw, evaluated once
product_table ==
    [p \in PAdjust, n \in 1..MaxLen |-> FMul(ToDouble(p), FromInt(n))]

\* line 62: p_value * len(p_values)
TimesLen(p, n) ==
    IF p \in PAdjust /\ n \in 1..MaxLen THEN product_table[p, n]
    ELSE FMul(ToDouble(p), FromInt(n))

\* the correction without the cap at 1.0
BonferroniNoCap(p, n) == TimesLen(p, n)

\* p_value * n, then min(p_value, 1.0)
BonferroniOne(p, n) ==
    CHOOSE r \in {IF FLess(One, p_value) THEN One ELSE p_value :
                      p_value \in {TimesLen(p, n)}} : TRUE

_apply_bonferroni_correction(p_values) ==
    [i \in 1..Len(p_values) |-> BonferroniOne(p_values[i], Len(p_values))]

\* the correction falling back to Bonferroni for an unknown method
adjust_p_values_fallback(p_values, adjustment_method) ==
    [status |-> "returned", error |-> "",
     adjusted |-> _apply_bonferroni_correction(p_values)]

adjust_p_values(p_values, adjustment_method) ==
    IF adjustment_method = "bonferroni"
    THEN [status |-> "returned", error |-> "",
          adjusted |-> _apply_bonferroni_correction(p_values)]
    ELSE [status |-> "raised", error |-> "ValueError: adjustment method not supported",
          adjusted |-> <<>>]

(* ------------------------------ inputs --------------------------------- *)

ColumnLib(kinds, n) == {Column(k, n) : k \in kinds}

\* the orders of the columns of a dataset: sequences of distinct field names
ColumnOrders(fs) ==
    {s \in UNION {[1..n -> fs] : n \in 0..Cardinality(fs)} :
        \A i, j \in 1..Len(s) : i # j => s[i] # s[j]}

PWindow == {PUlp(n) : n \in 0..MaxUlp}

PGrid == {PE5(1000), PE5(4999), PE5(5000), PE5(100000)}

PLists(ps) == UNION {[1..n -> ps] : n \in 0..MaxLen}

Methods == {"bonferroni", "holm"}

\* the state after ErrorAnalyzer(good_data, bad_data, fields_to_ignore, strategy)
InitOver(fs, good_kinds, good_rows, bad_kinds, bad_rows, strategies, pouts) ==
    /\ good_columns \in ColumnOrders(fs)
    /\ bad_columns \in ColumnOrders(fs)
    /\ \E n \in good_rows : good_data \in [Range(good_columns) -> ColumnLib(good_kinds, n)]
    /\ \E n \in bad_rows : bad_data \in [Range(bad_columns) -> ColumnLib(bad_kinds, n)]
    /\ fields_to_ignore \in SUBSET fs
    /\ numerical_strategy \in strategies
    /\ strategy_p \in [Range(good_columns) \cap Range(bad_columns) -> pouts]
    /\ op = "init"
    /\ arg_field = ""
    /\ arg_p_values = <<>>
    /\ arg_method = ""
    /\ status = "none"
    /\ error = ""
    /\ table = <<>>
    /\ calls = <<>>
    /\ effect = Zero
    /\ adjusted = <<>>

(* ------------------------------ actions -------------------------------- *)

Run ==
    \E r \in {run(good_columns, bad_columns, good_data, fields_to_ignore, strategy_p,
                   numerical_strategy)} :
        /\ op' = "run"
        /\ arg_field' = ""
        /\ arg_p_values' = <<>>
        /\ arg_method' = ""
        /\ status' = r.status
        /\ error' = r.error
        /\ table' = r.table
        /\ calls' = r.calls
        /\ effect' = Zero
        /\ adjusted' = <<>>
        /\ UNCHANGED engine

CalculateEffectSize(field) ==
    \E r \in calculate_effect_size(field, good_columns, bad_columns, good_data,
                                    bad_data, fields_to_ignore, strategy_p,
                                    numerical_strategy) :
        /\ op' = "calculate_effect_size"
        /\ arg_field' = field
        /\ arg_p_values' = <<>>
        /\ arg_method' = ""
        /\ status' = r.status
        /\ error' = r.error
        /\ table' = <<>>
        /\ calls' = r.calls
        /\ effect' = r.value
        /\ adjusted' = <<>>
        /\ UNCHANGED engine

AdjustPValues(p_values, adjustment_method) ==
    \E r \in {adjust_p_values(p_values, adjustment_method)} :
        /\ op' = "adjust_p_values"
        /\ arg_field' = ""
        /\ arg_p_values' = p_values
        /\ arg_method' = adjustment_method
        /\ status' = r.status
        /\ error' = r.error
        /\ table' = <<>>
        /\ calls' = <<>>
        /\ effect' = Zero
        /\ adjusted' = r.adjusted
        /\ UNCHANGED engine

\* _calculate_probability applied to the p-values of two non-drift fields
Score ==
    /\ op = "init"
    /\ Len(arg_p_values) = 2
    /\ op' = "_calculate_probability"
    /\ adjusted' = [i \in 1..2 |-> _calculate_probability(arg_p_values[i], FALSE)]
    /\ UNCHANGED <<engine, arg_field, arg_p_values, arg_method, status, error, table,
                   calls, effect>>

(* --------------------------- specifications ---------------------------- *)

Strategies == {"None", "strategy"}

Init == InitOver({"a"}, {"num"}, {MaxRows}, {"num"}, {MaxRows}, Strategies,
                 {PE5(1000), PRaise})

Next ==
    \/ Run
    \/ \E field \in Fields : CalculateEffectSize(field)
    \/ \E ps \in PLists(PAdjust), m \in Methods : AdjustPValues(ps, m)

Spec == Init /\ [][Next]_vars

PScore == PWindow \cup PGrid \cup {PE5(1), PE5(4998), PE5(5001), PE5(50000)}

InitScore ==
    /\ good_columns = <<>>
    /\ bad_columns = <<>>
    /\ good_data = <<>>
    /\ bad_data = <<>>
    /\ fields_to_ignore = {}
    /\ numerical_strategy = "None"
    /\ strategy_p = <<>>
    /\ op = "init"
    /\ arg_field = ""
    /\ arg_p_values \in [1..2 -> PScore]
    /\ arg_method = ""
    /\ status = "none"
    /\ error = ""
    /\ table = <<>>
    /\ calls = <<>>
    /\ effect = Zero
    /\ adjusted = <<>>

NextScore == Score

SpecScore == InitScore /\ [][NextScore]_vars

InitEffect == InitOver({"a", "b"}, {"num", "const", "str", "mixed"}, 0..MaxRows,
                       {"num3", "const", "str"}, 0..MaxRows, Strategies,
                       {PE5(1000), PRaise})

NextEffect == \E field \in Fields : CalculateEffectSize(field)

SpecEffect == InitEffect /\ [][NextEffect]_vars

InitEmpty == InitOver({"a", "b"}, {"num", "str", "mixed"}, 0..MaxRows,
                      {"num", "str", "mixed"}, 0..MaxRows, Strategies,
                      {PE5(1000), PRaise})

NextEmpty == Run

SpecEmpty == InitEmpty /\ [][NextEmpty]_vars

InitRun == InitOver(Fields, {"num", "str", "mixed"}, {0, MaxRows}, {"num"}, {MaxRows},
                    {"strategy"}, {PUlp(0), PE5(4999), PE5(5000)})

NextRun == Run

SpecRun == InitRun /\ [][NextRun]_vars

(* ------------------------------ claims --------------------------------- *)

InGood(f) == f \in Range(good_columns)

InBad(f) == f \in Range(bad_columns)

Shared(f) == InGood(f) /\ InBad(f)

Drift(f) == InGood(f) # InBad(f)

RunReturned == op = "run" /\ status = "returned"

RowsOf(f) == {i \in 1..Len(table) : table[i].field = f}

FieldSeq(t) == [i \in 1..Len(t) |-> t[i].field]

\* C1: after run(), every non-ignored field present in exactly one dataset has a
\* row in the returned table with extra_status = true, probability 99.999 and the
\* details "Missing in bad_data" (reference only) or "Additional in bad_data"
\* (candidate only).
Exactly99_999 == B46(RoundHalfEven(BigPow2(46), 1000))

C1_DriftRows ==
    op = "run" =>
        \A f \in Fields :
            (Drift(f) /\ f \notin fields_to_ignore) =>
                /\ status = "returned"
                /\ \E i \in RowsOf(f) :
                      /\ table[i].extra_status = TRUE
                      /\ table[i].probability = Exactly99_999
                      /\ table[i].details = IF InGood(f) THEN "Missing in bad_data"
                                            ELSE "Additional in bad_data"

\* C2: no row of a table returned by run() names a field of the ignore-list.
C2_NoIgnoredRows ==
    RunReturned => \A i \in 1..Len(table) : table[i].field \notin fields_to_ignore

C2_Witness ==
    /\ RunReturned
    /\ Len(table) >= 1
    /\ \E f \in fields_to_ignore : Shared(f)
    /\ \E f \in fields_to_ignore : Drift(f)

\* 0 <= score <= 100 (a "b46" score is 100 - r * 2^-46, so r <= 100 * 2^46)
ScoreInRange(sc) ==
    \/ sc = ScoreZero
    \/ sc.u = "b46" /\ ~BigLess(BigMul(BigPow2(46), 100), sc.k)

\* the claims' own reading of a column: only numbers, only strings
OnlyNumbers(col) == \A i \in 1..Len(col) : col[i].t = "num"

OnlyStrings(col) == \A i \in 1..Len(col) : col[i].t = "str"

Classified(f) == OnlyNumbers(good_data[f]) \/ OnlyStrings(good_data[f])

\* the engine has a numerical strategy, and every test returns a p-value
StrategyReturns ==
    /\ numerical_strategy = "strategy"
    /\ \A g \in DOMAIN strategy_p : strategy_p[g].u # "raise"

\* C3: whatever p-values in [0, 1] the strategy returns, run() returns a table
\* that holds exactly one row for every shared, non-ignored field whose
\* reference column is all numbers or all strings; the row has extra_status =
\* false and a probability in [0, 100].
C3_OneRowInRange ==
    (op = "run" /\ StrategyReturns) =>
        \A f \in Fields :
            (Shared(f) /\ f \notin fields_to_ignore /\ Classified(f)) =>
                /\ status = "returned"
                /\ Cardinality(RowsOf(f)) = 1
                /\ \A i \in RowsOf(f) :
                      /\ table[i].extra_status = FALSE
                      /\ ScoreInRange(table[i].probability)

RECURSIVE Select(_, _, _)
Select(s, keep, i) ==
    IF i > Len(s) THEN <<>>
    ELSE IF s[i] \in keep THEN <<s[i]>> \o Select(s, keep, i + 1)
    ELSE Select(s, keep, i + 1)

\* the row order the claim states: the reference fields that get a row, in the
\* reference's column order, then the candidate-only fields, in the candidate's
ExpectedRowOrder ==
    Select(good_columns,
           {f \in Fields : InGood(f) /\ f \notin fields_to_ignore
                           /\ (~InBad(f) \/ Classified(f))}, 1)
    \o Select(bad_columns,
              {f \in Fields : InBad(f) /\ ~InGood(f) /\ f \notin fields_to_ignore}, 1)

\* C4: the rows of the table run() returns are the rows of the reference fields
\* in the reference's column order, followed by the rows of the candidate-only
\* fields in the candidate's column order.
C4_RowOrder == op = "run" => FieldSeq(table) = ExpectedRowOrder

Without(cols, f) == Select(cols, Range(cols) \ {f}, 1)

Mixed(f) == Shared(f) /\ f \notin fields_to_ignore /\ ~Classified(f)

\* a < b on scores
ScoreLess(a, b) ==
    CASE a.u = "b46" /\ b.u = "b46" -> BigLess(b.k, a.k)
      [] a.u = "zero" /\ b.u = "b46" -> BigLess(b.k, BigMul(BigPow2(46), 100))
      [] OTHER -> FALSE

BelowAlpha(p) == p.u = "ulp" \/ p.k < 5000

BigLeq(A, B) == ~BigLess(B, A)

\* |A - B| <= c
BigWithin(A, B, c) == BigLeq(A, BigAdd(B, c)) /\ BigLeq(B, BigAdd(A, c))

\* the score is (1 - p) * 100 to within one spacing (2^-46) of the doubles
\* below 100.0: the score 100 - r * 2^-46 has |r - x| <= 1, where
\* (1 - k * 10^-5) * 100 = 100 - (k * 2^46 / 1000) * 2^-46 and
\* (1 - k * 2^-55) * 100 = 100 - (100 k / 512) * 2^-46
IsOneMinusTimes100(p, sc) ==
    /\ sc.u = "b46"
    /\ IF p.u = "e5"
       THEN BigWithin(BigMul(sc.k, 1000), BigMul(BigPow2(46), p.k), 1000)
       ELSE BigWithin(BigMul(sc.k, 512), BigOf(100 * p.k), 512)

Scored == op = "_calculate_probability"

\* C5: for non-drift fields and threshold 0.05, a p-value below 0.05 scores
\* (1 - p_value) * 100, so p_value_a < p_value_b < 0.05 gives score_a > score_b;
\* a p-value >= 0.05 (exactly 0.05 included) scores 0.
C5_StrictlyMonotone ==
    Scored =>
        LET p_a == arg_p_values[1]
            p_b == arg_p_values[2]
        IN  /\ BelowAlpha(p_a) => IsOneMinusTimes100(p_a, adjusted[1])
            /\ ~BelowAlpha(p_a) => adjusted[1] = ScoreZero
            /\ (PLess(p_a, p_b) /\ BelowAlpha(p_b)) => ScoreLess(adjusted[2], adjusted[1])

\* p_b - p_a >= 2^-52, on the doubles m * 2^-e the two p-values are
ApartBy2_52(p_a, p_b) ==
    LET a == DoubleOf(p_a)
        b == DoubleOf(p_b)
        E == IF a.e < b.e THEN b.e ELSE a.e
    IN  BigLeq(BigPlus(BigShl(a.m, E - a.e), BigPow2(E - 52)), BigShl(b.m, E - b.e))

\* C5 as amended: a p-value below 0.05 scores (1 - p_value) * 100 computed in
\* double precision, so p_value_a < p_value_b < 0.05 gives score_a >= score_b,
\* and score_a > score_b when p_value_b - p_value_a >= 2^-52;
\* a p-value >= 0.05 (exactly 0.05 included) scores 0.
C5_Monotone ==
    Scored =>
        LET p_a == arg_p_values[1]
            p_b == arg_p_values[2]
        IN  /\ BelowAlpha(p_a) => IsOneMinusTimes100(p_a, adjusted[1])
            /\ ~BelowAlpha(p_a) => adjusted[1] = ScoreZero
            /\ (PLess(p_a, p_b) /\ BelowAlpha(p_b)) => ~ScoreLess(adjusted[1], adjusted[2])
            /\ (BelowAlpha(p_b) /\ ApartBy2_52(p_a, p_b)) =>
                   ScoreLess(adjusted[2], adjusted[1])

\* 5 * 2^-55 and 13 * 2^-55 are 2^-52 apart and score 100 - 2^-46 and
\* 100 - 2 * 2^-46
C5_Witness ==
    /\ Scored
    /\ arg_p_values = <<PUlp(5), PUlp(13)>>
    /\ adjusted = <<B46(<<1>>), B46(<<2>>)>>

\* the claim's own arithmetic.  a is p * n to the nearest double: with the
\* p-value p = m * 2^-e and a = a.m * 2^a.e, twice |a - p * n| is at most
\* the spacing 2^a.e of the doubles at a
IsTimes(p, n, a) ==
    /\ a.kind = "num"
    /\ a.s = 1
    /\ LET d == DoubleOf(p)
           G == IF a.e < -d.e THEN a.e ELSE -d.e
           A == BigShl(a.m, a.e - G + 1)
           P == BigShl(BigMul(d.m, n), -d.e - G + 1)
           T == BigShl(<<1>>, a.e - G)
       IN  BigLeq(A, BigPlus(P, T)) /\ BigLeq(P, BigPlus(A, T))

\* p * n >= 1
ProductAtLeastOne(p, n) ==
    LET d == DoubleOf(p)
    IN  BigLeq(BigPow2(d.e), BigMul(d.m, n))

\* a is min(p * n, 1.0)
IsTimesCapped(p, n, a) ==
    IF ProductAtLeastOne(p, n) THEN a = One ELSE IsTimes(p, n, a)

AtMostOne(a) == a.kind \in {"zero", "num"} /\ ~FLess(One, a)

Adjusted == op = "adjust_p_values" /\ arg_method = "bonferroni"

\* C6: adjust_p_values(p_values, 'bonferroni') returns a list of the same length
\* and order whose i-th element is min(p_values[i] * n, 1.0), n the length of the
\* list; no element exceeds 1.0 and the list is the same whatever the engine's
\* datasets are.
C6_Bonferroni ==
    Adjusted =>
        /\ status = "returned"
        /\ Len(adjusted) = Len(arg_p_values)
        /\ \A i \in 1..Len(adjusted) :
              /\ IsTimesCapped(arg_p_values[i], Len(arg_p_values), adjusted[i])
              /\ AtMostOne(adjusted[i])

\* [0.01, 0.02, 0.5] gives [0.03, 0.06, 1.0], on an engine that holds data
C6_Witness ==
    /\ Adjusted
    /\ arg_p_values = <<PE5(1000), PE5(2000), PE5(50000)>>
    /\ adjusted = <<ToDouble(PE5(3000)), ToDouble(PE5(6000)), One>>
    /\ good_columns # <<>>

\* C7: adjust_p_values with a method other than 'bonferroni' raises the
\* unsupported-method error and returns no list.
C7_UnsupportedMethod ==
    (op = "adjust_p_values" /\ arg_method # "bonferroni") =>
        /\ status = "raised"
        /\ error = "ValueError: adjustment method not supported"
        /\ adjusted = <<>>

C7_Witness ==
    /\ op = "adjust_p_values"
    /\ arg_method = "holm"
    /\ Len(arg_p_values) = MaxLen
    /\ status = "raised"

EffectAsked == op = "calculate_effect_size"

\* not part of the analyzed set: shared with a mixed-type reference column, or
\* in neither dataset
NotAnalyzed(f) == f \notin fields_to_ignore /\ (Mixed(f) \/ (~InGood(f) /\ ~InBad(f)))

\* C8: calculate_effect_size(field) returns 0.0 and does not fail for every
\* ignored field and for every field that was not part of the analyzed set.
C8_SentinelNeverFails ==
    (EffectAsked /\ (arg_field \in fields_to_ignore \/ NotAnalyzed(arg_field))) =>
        status = "returned" /\ effect = Zero

\* the position of field f in the column order cols (0 when absent)
PositionIn(cols, f) ==
    IF f \in Range(cols) THEN CHOOSE i \in 1..Len(cols) : cols[i] = f ELSE 0

\* the engine has no numerical strategy and g is an analyzed numeric field
LacksStrategy(g) == numerical_strategy = "None" /\ OnlyNumbers(good_data[g])

\* computing the p-value of the analyzed field g raises: there is no strategy
\* to call for it, or its test raises
PValueFails(g) ==
    /\ Shared(g) /\ g \notin fields_to_ignore /\ Classified(g)
    /\ LacksStrategy(g) \/ strategy_p[g] = PRaise

\* C8 as amended: for an ignored field calculate_effect_size returns 0.0 and
\* never fails (no p-value is computed); for a field that was not part of the
\* analyzed set it returns 0.0 unless computing the p-value of an analyzed
\* field raises (its test raises, or the field is numeric and the engine has
\* no numerical strategy: AttributeError), and then the error of the first such
\* field in the reference's column order propagates.
C8_Sentinel ==
    EffectAsked =>
        /\ arg_field \in fields_to_ignore =>
              status = "returned" /\ effect = Zero /\ calls = <<>>
        /\ NotAnalyzed(arg_field) =>
              IF \E g \in Fields : PValueFails(g)
              THEN LET g == CHOOSE x \in Fields :
                                /\ PValueFails(x)
                                /\ \A y \in Fields :
                                      PValueFails(y) =>
                                          PositionIn(good_columns, x)
                                              <= PositionIn(good_columns, y)
                   IN  /\ status = "raised"
                       /\ error = IF LacksStrategy(g)
                                  THEN "AttributeError: 'NoneType' object has no attribute 'calculate_probability'"
                                  ELSE "strategy error"
              ELSE status = "returned" /\ effect = Zero

C8_Witness ==
    /\ EffectAsked
    /\ Mixed(arg_field)
    /\ status = "returned"
    /\ effect = Zero
    /\ Len(calls) >= 1

RECURSIVE SumSq(_, _)
SumSq(col, i) == IF i > Len(col) THEN 0 ELSE col[i].v * col[i].v + SumSq(col, i + 1)

Abs(x) == IF x < 0 THEN -x ELSE x

\* the claim's arithmetic over the common denominator n1 * n2:
\* pooled variance = PooledVarNum / PooledVarDen, mean difference = MeanGap / (n1 * n2)
PooledVarNum(g, b) ==
    (Len(g) * SumSq(g, 1) - Sum(g, 1) * Sum(g, 1)) * Len(b)
    + (Len(b) * SumSq(b, 1) - Sum(b, 1) * Sum(b, 1)) * Len(g)

PooledVarDen(g, b) == Len(g) * Len(b) * (Len(g) + Len(b) - 2)

MeanGap(g, b) == Abs(Sum(g, 1) * Len(b) - Sum(b, 1) * Len(g))

\* a shared, non-ignored field with two numeric columns for which Cohen's d is
\* defined (two values or more on each side, pooled variance not zero)
CohenDefined(f) ==
    /\ Shared(f) /\ f \notin fields_to_ignore
    /\ OnlyNumbers(good_data[f]) /\ OnlyNumbers(bad_data[f])
    /\ Len(good_data[f]) >= 2 /\ Len(bad_data[f]) >= 2
    /\ PooledVarNum(good_data[f], bad_data[f]) > 0

\* C9: for a shared, non-ignored numeric field calculate_effect_size returns
\* d = |mean(reference) - mean(candidate)| / sqrt(pooled variance), i.e. d >= 0 and
\* d^2 * pooled variance = (mean difference)^2 (to the precision of doubles:
\* within 2^-40 of it), and d > 0 when the means differ.
C9_CohensD ==
    (EffectAsked /\ status = "returned" /\ CohenDefined(arg_field)) =>
        LET g == good_data[arg_field]
            b == bad_data[arg_field]
            n == Len(g) * Len(b)
            \* d^2 * A = B
            A == PooledVarNum(g, b) * n * n
            B == MeanGap(g, b) * MeanGap(g, b) * PooledVarDen(g, b)
        IN  IF B = 0 THEN effect = Zero
            ELSE /\ effect.kind = "num"
                 /\ effect.s = 1
                 /\ LET G == IF effect.e < 0 THEN 2 * effect.e ELSE 0
                        X == BigShl(BigTimes(BigTimes(effect.m, effect.m), BigOf(A)),
                                    2 * effect.e - G)
                        Y == BigShl(BigOf(B), -G)
                    IN  /\ BigLeq(BigShl(X, 40), BigPlus(BigShl(Y, 40), Y))
                        /\ BigLeq(BigShl(Y, 40), BigPlus(BigShl(X, 40), Y))

\* C10: for a shared, non-ignored field whose reference column mixes numbers and
\* strings, run() calls no strategy for it and emits no row for it, and the
\* outcome of run() (returned table or raised error, and the strategy calls) is
\* the one it has with that field removed from both datasets.
C10_MixedSkipped ==
    op = "run" =>
        \A f \in Fields :
            Mixed(f) =>
                /\ \A i \in 1..Len(calls) : calls[i][1] # f
                /\ RowsOf(f) = {}
                /\ LET r == run(Without(good_columns, f), Without(bad_columns, f),
                                good_data, fields_to_ignore, strategy_p,
                                numerical_strategy)
                   IN  /\ r.status = status
                       /\ r.error = error
                       /\ r.table = table
                       /\ r.calls = calls

C10_Witness ==
    /\ RunReturned
    /\ Len(table) >= 1
    /\ \E f \in Fields : Mixed(f)

\* the strategy call raised on a reference column that precedes f (the
\* strategy raised, or there was none to call), which ends the loop of
\* _calculate_probabilities before it reaches f
RaisedBefore(f) ==
    /\ status = "raised"
    /\ error \in {"strategy error",
                  "AttributeError: 'NoneType' object has no attribute 'calculate_probability'"}
    /\ Len(calls) >= 1
    /\ PositionIn(good_columns, calls[Len(calls)][1]) < PositionIn(good_columns, f)

EmptyReference(f) ==
    Shared(f) /\ f \notin fields_to_ignore /\ Len(good_data[f]) = 0

\* C11: a shared, non-ignored field whose reference column has zero values is
\* classified Numeric whatever the candidate column holds: run() calls the
\* numerical strategy for it, never the categorical test, and does not skip it
\* (unless the strategy call raised on an earlier column and ended the run).
C11_EmptyIsNumeric ==
    op = "run" =>
        \A f \in Fields :
            EmptyReference(f) =>
                /\ \A i \in 1..Len(calls) : calls[i][1] = f => calls[i][2] = "numerical"
                /\ \/ \E i \in 1..Len(calls) : calls[i] = <<f, "numerical">>
                   \/ RaisedBefore(f)

C11_Witness ==
    /\ RunReturned
    /\ \E f \in Fields :
          /\ EmptyReference(f)
          /\ Len(bad_data[f]) > 0 /\ OnlyStrings(bad_data[f])
          /\ \E i \in 1..Len(calls) : calls[i] = <<f, "numerical">>
          /\ RowsOf(f) # {}

====
